---- MODULE Spec2Model ----
(***************************************************************************)
(* The resolver layer of the appointment backend (src/resolvers.ts): the   *)
(* two MongoDB collections, and one action per resolver.  Every resolver   *)
(* runs to completion here (Spec): its find and its write are one step.    *)
(***************************************************************************)
EXTENDS Integers, FiniteSets, Sequences, TLC

(* ------------------------------ bounds --------------------------------- *)

\* Most documents ever inserted, patients and appointments together.
MaxOid == 2

(* --------------------------- input domains ----------------------------- *)

\* 24-digit hexadecimal strings, the well-formed identifier strings;
\* OidStrings[n] is the string form of the n-th ObjectId.
OidStrings ==
    << "000000000000000000000001", "000000000000000000000002",
       "000000000000000000000003", "000000000000000000000004",
       "000000000000000000000005", "000000000000000000000006",
       "000000000000000000000007", "000000000000000000000008" >>

\* A string that is no ObjectId.
MalformedId == "xyz"

\* The ObjectIds the driver generates for the documents of a collection:
\* the k-th patient gets 2k - 1 and the k-th appointment 2k, so that no two
\* documents ever share an _id.
GenerateOid(coll, k) == IF coll = "pacientes" THEN 2 * k - 1 ELSE 2 * k

\* The identifier strings a caller sends: the string of every ObjectId a
\* patient or an appointment can be given, and a malformed one.
IdInputs ==
    { OidStrings[n] : n \in 1..(2 * MaxOid) } \cup { MalformedId }

Nombres == { "Ana", "Luis" }
\* "555-1" is a phone number; "bad" and the empty string are not.
Telefonos == { "555-1", "bad", "" }
Correos == { "a@x.com", "b@x.com" }
Tipos == { "checkup", "revision" }
\* "2024-05-01" and "2024-05-01T00:00:00Z" name the same instant; "manana"
\* names none.
Fechas == { "2024-05-01", "2024-05-01T00:00:00Z", "2024-05-02", "manana" }

(* ------------------------- driver primitives --------------------------- *)

\* JavaScript null / undefined: what findOne yields when nothing matches.
null == [ null |-> TRUE ]

\* No error: the resolver returned.
NoError == ""
\* The error new ObjectId(s) throws for a string that is no ObjectId.
BSONError == "BSONError"

\* The messages of the GraphQLErrors the resolvers throw, by kind of failure.
Conflict ==
    { "ya existe el paciente",
      "Ya existe una cita para este paciente en esa fecha" }
NotFound == { "Paciente no encontrado", "Contact not found" }
InvalidArgument == { "telefono invalido" }

\* ObjectId.isValid(s) for the strings of the model.
IsObjectIdString(s) == \E n \in DOMAIN OidStrings : OidStrings[n] = s

\* new ObjectId(s), for a well-formed s.
ObjectId(s) == CHOOSE n \in DOMAIN OidStrings : OidStrings[n] = s

\* ObjectId.prototype.toString()
toString(oid) == OidStrings[oid]

\* The time value of an Invalid Date (NaN).
NaN == -1

\* new Date(fecha).getTime(), in days since the epoch: a date-only form and
\* the same day at midnight UTC are one instant; an unparseable string gives
\* an Invalid Date.
Date(fecha) ==
    CASE fecha = "2024-05-01" -> 19844
      [] fecha = "2024-05-01T00:00:00Z" -> 19844
      [] fecha = "2024-05-02" -> 19845
      [] OTHER -> NaN

\* BSON serialisation of a Date (filter or document): the time value as an
\* int64, Long.fromNumber(NaN) being 0, the epoch.
BsonDate(t) == IF t = NaN THEN 0 ELSE t

\* Date.prototype.toString(): the canonical string form of a date value.
DateToString(t) ==
    CASE t = 0 -> "Thu Jan 01 1970"
      [] t = 19844 -> "Wed May 01 2024"
      [] t = 19845 -> "Thu May 02 2024"
      [] OTHER -> "Invalid Date"

\* collection.findOne(filter), given the documents the filter matches: one
\* of them, or null.
FindOne(matching) ==
    IF matching # {} THEN CHOOSE d \in matching : TRUE ELSE null

\* Mutant: the lookup ignores the id and takes any document.
FindByIdAny(coll, oid) == FindOne(coll)

\* collection.findOne({_id: oid})
FindById(coll, oid) == FindOne({ d \in coll : d._id = oid })

(* ------------------------------- state --------------------------------- *)

\* The concurrent tasks of the server: each runs resolver calls one after the
\* other, and the calls of different tasks interleave at their awaits.
Procs == { "a", "b" }

\* A task with no call in flight.
\* pc is the storage call the task issues next; op, args and error are those
\* of its current or last call; n counts its calls and upd its updatePatient
\* calls. History: existed, whether the patient a call of updatePatient names
\* was stored when the call began, and raced, whether another task wrote to
\* the patients collection between the call's findOne and its
\* findOneAndUpdate.
Idle == [ pc |-> "idle", op |-> "none", args |-> << >>, error |-> NoError,
          n |-> 0, upd |-> 0, existed |-> FALSE, raced |-> FALSE ]

VARIABLES
    patients,   \* PacientesCollection: documents [_id, nombre, telefono, correo]
    citas,      \* CitasCollection: documents [_id, paciente, fecha, tipo]
    nextOid,    \* per collection, the number of the next document inserted
    reply,      \* the outcome of the last resolver call
    created,    \* history: for every stored appointment, what addAppointment
                \* returned when it inserted it
    deleted,    \* history: whether any appointment has been deleted
    calls,      \* the storage calls the last resolver call issued, in order
    procs       \* the resolver calls in flight, when calls run concurrently

vars == << patients, citas, nextOid, reply, created, deleted, calls, procs >>

\* A resolver that threw.
Throw(op, msg) == [ op |-> op, error |-> msg, value |-> null ]
\* A resolver that returned v.
Return(op, v) == [ op |-> op, error |-> NoError, value |-> v ]

Init ==
    /\ patients = {}
    /\ citas = {}
    /\ nextOid = [ pacientes |-> 1, citas |-> 1 ]
    /\ reply = Return("start", null)
    /\ created = {}
    /\ deleted = FALSE
    /\ calls = << >>
    /\ procs = [ p \in Procs |-> Idle ]

(* ----------------------------- addPatient ------------------------------ *)

AddPatientArgs == [ nombre : Nombres, telefono : Telefonos, correo : Correos ]

\* Mutant: the filter matches only a patient with both fields equal.
PacienteExisteFilterAnd(args, d) ==
    d.correo = args.correo /\ d.telefono = args.telefono

\* The filter {$or: [{correo}, {telefono}]} of addPatient.
PacienteExisteFilter(args, d) ==
    d.correo = args.correo \/ d.telefono = args.telefono

\* Mutant: insertOne gives every document of coll the same _id.
InsertedIdReused(coll) == GenerateOid(coll, 1)

\* The _id insertOne gives the document it inserts into coll.
InsertedId(coll) == GenerateOid(coll, nextOid[coll])

\* The documents inserted so far, which the model caps at MaxOid.
Inserted == (nextOid.pacientes - 1) + (nextOid.citas - 1)

addPatient(args) ==
    LET paciente_existe ==
            FindOne({ d \in patients : PacienteExisteFilter(args, d) })
        insertedId == InsertedId("pacientes")
        doc == [ _id |-> insertedId, nombre |-> args.nombre,
                 telefono |-> args.telefono, correo |-> args.correo ]
    IN  IF paciente_existe # null
        THEN /\ reply' = Throw("addPatient", "ya existe el paciente")
             /\ calls' = << "findOne" >>
             /\ UNCHANGED << patients, citas, nextOid, created, deleted, procs >>
        ELSE /\ Inserted < MaxOid
             /\ patients' = patients \cup { doc }
             /\ nextOid' = [ nextOid EXCEPT !.pacientes = @ + 1 ]
             /\ reply' = Return("addPatient", doc)
             /\ calls' = << "findOne", "insertOne" >>
             /\ UNCHANGED << citas, created, deleted, procs >>

(* --------------------------- addAppointment ---------------------------- *)

AddAppointmentArgs == [ paciente : IdInputs, fecha : Fechas, tipo : Tipos ]

\* Mutant: the filter also asks for the same tipo.
CitaExisteFilterTipo(args, d) ==
    /\ d.paciente = ObjectId(args.paciente)
    /\ d.fecha = BsonDate(Date(args.fecha))
    /\ d.tipo = args.tipo

\* Mutant: the filter asks for the date alone.
CitaExisteFilterFecha(args, d) == d.fecha = BsonDate(Date(args.fecha))

\* The filter {paciente: new ObjectId(paciente), fecha: new Date(fecha)} of
\* addAppointment, as the store matches it against a document.
CitaExisteFilter(args, d) ==
    /\ d.paciente = ObjectId(args.paciente)
    /\ d.fecha = BsonDate(Date(args.fecha))

\* Mutant: the patient reference is looked up first, and a reference to no
\* stored patient is refused.
addAppointmentChecked(args) ==
    IF ~IsObjectIdString(args.paciente)
    THEN /\ reply' = Throw("addAppointment", BSONError)
         /\ calls' = << >>
         /\ UNCHANGED << patients, citas, nextOid, created, deleted, procs >>
    ELSE
    LET cita_existe == FindOne({ d \in citas : CitaExisteFilter(args, d) })
        insertedId == InsertedId("citas")
        doc == [ _id |-> insertedId, paciente |-> ObjectId(args.paciente),
                 fecha |-> BsonDate(Date(args.fecha)), tipo |-> args.tipo ]
        cita == [ _id |-> insertedId, paciente |-> ObjectId(args.paciente),
                  fecha |-> Date(args.fecha), tipo |-> args.tipo ]
    IN  IF FindById(patients, ObjectId(args.paciente)) = null
        THEN /\ reply' = Throw("addAppointment", "Paciente no encontrado")
             /\ calls' = << "findOne" >>
             /\ UNCHANGED << patients, citas, nextOid, created, deleted, procs >>
        ELSE IF cita_existe # null
        THEN /\ reply' = Throw("addAppointment",
                    "Ya existe una cita para este paciente en esa fecha")
             /\ calls' = << "findOne", "findOne" >>
             /\ UNCHANGED << patients, citas, nextOid, created, deleted, procs >>
        ELSE /\ Inserted < MaxOid
             /\ citas' = citas \cup { doc }
             /\ nextOid' = [ nextOid EXCEPT !.citas = @ + 1 ]
             /\ reply' = Return("addAppointment", cita)
             /\ calls' = << "findOne", "findOne", "insertOne" >>
             /\ created' = created \cup { cita }
             /\ UNCHANGED << patients, deleted, procs >>

addAppointment(args) ==
    IF ~IsObjectIdString(args.paciente)
    THEN /\ reply' = Throw("addAppointment", BSONError)
         /\ calls' = << >>
         /\ UNCHANGED << patients, citas, nextOid, created, deleted, procs >>
    ELSE
    LET cita_existe == FindOne({ d \in citas : CitaExisteFilter(args, d) })
        insertedId == InsertedId("citas")
        \* the document as the store holds it
        doc == [ _id |-> insertedId, paciente |-> ObjectId(args.paciente),
                 fecha |-> BsonDate(Date(args.fecha)), tipo |-> args.tipo ]
        \* the object the resolver returns
        cita == [ _id |-> insertedId, paciente |-> ObjectId(args.paciente),
                  fecha |-> Date(args.fecha), tipo |-> args.tipo ]
    IN  IF cita_existe # null
        THEN /\ reply' = Throw("addAppointment",
                    "Ya existe una cita para este paciente en esa fecha")
             /\ calls' = << "findOne" >>
             /\ UNCHANGED << patients, citas, nextOid, created, deleted, procs >>
        ELSE /\ Inserted < MaxOid
             /\ citas' = citas \cup { doc }
             /\ nextOid' = [ nextOid EXCEPT !.citas = @ + 1 ]
             /\ reply' = Return("addAppointment", cita)
             /\ calls' = << "findOne", "insertOne" >>
             /\ created' = created \cup { cita }
             /\ UNCHANGED << patients, deleted, procs >>

(* -------------------------- deleteAppointment -------------------------- *)

DeleteAppointmentArgs == [ id : IdInputs ]

\* The documents collection.deleteOne({_id: oid}) removes (at most one).
DeleteOne(coll, oid) == { d \in coll : d._id = oid }

\* Mutant: the test of deletedCount is inverted.
DeleteResultInverted(deletedCount) == IF deletedCount = 0 THEN TRUE ELSE FALSE

\* What deleteAppointment returns for a deletedCount.
DeleteResult(deletedCount) == IF deletedCount = 0 THEN FALSE ELSE TRUE

\* Mutant: deleting an appointment also deletes the patient it refers to.
deleteAppointmentCascade(args) ==
    IF ~IsObjectIdString(args.id)
    THEN /\ reply' = Throw("deleteAppointment", BSONError)
         /\ calls' = << >>
         /\ UNCHANGED << patients, citas, nextOid, created, deleted, procs >>
    ELSE
    LET removed == DeleteOne(citas, ObjectId(args.id))
        deletedCount == Cardinality(removed)
    IN  /\ citas' = citas \ removed
        /\ patients' = { p \in patients :
                           \A d \in removed : d.paciente # p._id }
        /\ reply' = Return("deleteAppointment", DeleteResult(deletedCount))
        /\ calls' = << "deleteOne" >>
        /\ created' = { c \in created : c._id # ObjectId(args.id) }
        /\ deleted' = (deleted \/ deletedCount # 0)
        /\ UNCHANGED << nextOid, procs >>

deleteAppointment(args) ==
    IF ~IsObjectIdString(args.id)
    THEN /\ reply' = Throw("deleteAppointment", BSONError)
         /\ calls' = << >>
         /\ UNCHANGED << patients, citas, nextOid, created, deleted, procs >>
    ELSE
    LET removed == DeleteOne(citas, ObjectId(args.id))
        deletedCount == Cardinality(removed)
    IN  /\ citas' = citas \ removed
        /\ reply' = Return("deleteAppointment", DeleteResult(deletedCount))
        /\ calls' = << "deleteOne" >>
        /\ created' = { c \in created : c._id # ObjectId(args.id) }
        /\ deleted' = (deleted \/ deletedCount # 0)
        /\ UNCHANGED << patients, nextOid, procs >>

(* ------------------------------ getPacient ----------------------------- *)

QueryArgsPaciente == [ id : IdInputs ]

getPacient(args) ==
    IF ~IsObjectIdString(args.id)
    THEN /\ reply' = Throw("getPacient", BSONError)
         /\ calls' = << >>
         /\ UNCHANGED << patients, citas, nextOid, created, deleted, procs >>
    ELSE
    LET result == FindById(patients, ObjectId(args.id))
    IN  /\ reply' = IF result = null
                    THEN Throw("getPacient", "Contact not found")
                    ELSE Return("getPacient", result)
        /\ calls' = << "findOne" >>
        /\ UNCHANGED << patients, citas, nextOid, created, deleted, procs >>

(* ---------------------------- getAppointments -------------------------- *)

\* The field resolvers of Cita, applied to one stored appointment: id and
\* fecha as strings, paciente looked up in the patients collection.
CitaFields(parent) ==
    [ id |-> toString(parent._id),
      paciente |-> FindById(patients, parent.paciente),
      fecha |-> DateToString(parent.fecha),
      tipo |-> parent.tipo ]

\* Mutant: the patients of all n entries are looked up by one find.
ExpansionCallsBatched(n) == IF n = 0 THEN << >> ELSE << "find" >>

\* The storage calls of Cita.paciente for the n entries getAppointments
\* returned: one findOne for each.
ExpansionCalls(n) == [ i \in 1..n |-> "findOne" ]

\* getAppointments followed by the field resolvers of each entry.
getAppointments ==
    /\ reply' = Return("getAppointments", { CitaFields(d) : d \in citas })
    /\ calls' = << "find" >> \o ExpansionCalls(Cardinality(citas))
    /\ UNCHANGED << patients, citas, nextOid, created, deleted, procs >>

(* ----------------------------- updatePatient --------------------------- *)

\* validar(telefono) of utils.ts, the phone-format predicate.
validar(telefono) == telefono = "555-1"

\* The name under which the caller's identifier reaches the resolver: the
\* resolver reads args._id (its parameter is typed Paciente), the schema
\* declares the argument as id.
IdKeys == { "_id", "id" }

\* One argument object: the identifier under key k, and the fields of S.
UpdateArgs(k, i, S, n, t, c) ==
    [ x \in { k } \cup S |->
        CASE x = k -> i
          [] x = "nombre" -> n
          [] x = "telefono" -> t
          [] x = "correo" -> c ]

\* The argument objects of updatePatient: an identifier and any subset of
\* nombre, telefono and correo.
UpdatePatientArgs ==
    { UpdateArgs(k, i, S, n, t, c) :
        k \in IdKeys, i \in IdInputs,
        S \in SUBSET { "nombre", "telefono", "correo" },
        n \in Nombres, t \in Telefonos, c \in Correos }

\* An ObjectId generated by new ObjectId(undefined): equal to the _id of no
\* document.
FreshOid == 0

\* new ObjectId(_id) for the _id of args, which is undefined when args
\* carries no _id.
ArgsOid(args) ==
    IF "_id" \in DOMAIN args THEN ObjectId(args._id) ELSE FreshOid

\* JavaScript truthiness of the optional string args.telefono.
Truthy(args, field) == field \in DOMAIN args /\ args[field] # ""

\* const { _id: _id_unused, ...updateFields } = args
UpdateFields(args) == [ x \in DOMAIN args \ { "_id" } |-> args[x] ]

\* The document {$set: fields} makes of doc.
Set(doc, fields) ==
    [ x \in DOMAIN doc \cup DOMAIN fields |->
        IF x \in DOMAIN fields THEN fields[x] ELSE doc[x] ]

\* Mutant: the update is applied but no document is handed back.
FindOneAndUpdateNoDocument(coll, oid, fields) ==
    LET doc == FindById(coll, oid)
    IN  IF doc = null
        THEN [ coll |-> coll, result |-> null ]
        ELSE [ coll |-> (coll \ { doc }) \cup { Set(doc, fields) },
               result |-> null ]

\* collection.findOneAndUpdate({_id: oid}, {$set: fields},
\* {returnDocument: "after"}): the collection afterwards and the document
\* returned.
FindOneAndUpdate(coll, oid, fields) ==
    LET doc == FindById(coll, oid)
    IN  IF doc = null
        THEN [ coll |-> coll, result |-> null ]
        ELSE [ coll |-> (coll \ { doc }) \cup { Set(doc, fields) },
               result |-> Set(doc, fields) ]

updatePatient(args) ==
    IF "_id" \in DOMAIN args /\ ~IsObjectIdString(args._id)
    THEN /\ reply' = Throw("updatePatient", BSONError)
         /\ calls' = << >>
         /\ UNCHANGED << patients, citas, nextOid, created, deleted, procs >>
    ELSE
    LET paciente_existe == FindById(patients, ArgsOid(args))
        updated == FindOneAndUpdate(patients, ArgsOid(args), UpdateFields(args))
    IN  IF paciente_existe = null
        THEN /\ reply' = Throw("updatePatient", "Paciente no encontrado")
             /\ calls' = << "findOne" >>
             /\ UNCHANGED << patients, citas, nextOid, created, deleted, procs >>
        ELSE IF Truthy(args, "telefono") /\ ~validar(args.telefono)
        THEN /\ reply' = Throw("updatePatient", "telefono invalido")
             /\ calls' = << "findOne" >>
             /\ UNCHANGED << patients, citas, nextOid, created, deleted, procs >>
        ELSE /\ patients' = updated.coll
             /\ reply' = IF updated.result = null
                         THEN Throw("updatePatient", "Contact not found")
                         ELSE Return("updatePatient", updated.result)
             /\ calls' = << "findOne", "findOneAndUpdate" >>
             /\ UNCHANGED << citas, nextOid, created, deleted, procs >>

Next ==
    \/ \E args \in AddPatientArgs : addPatient(args)
    \/ \E args \in UpdatePatientArgs : updatePatient(args)
    \/ \E args \in AddAppointmentArgs : addAppointment(args)
    \/ \E args \in DeleteAppointmentArgs : deleteAppointment(args)
    \/ \E args \in QueryArgsPaciente : getPacient(args)
    \/ getAppointments

Spec == Init /\ [][Next]_vars

(* ======================================================================= *)
(* Concurrent calls: the resolvers are async functions, and the calls of   *)
(* different requests interleave at every await. One step is one storage   *)
(* call (or the await of validar) of one task, with the synchronous code   *)
(* that follows it up to the next await.                                   *)
(* ======================================================================= *)

\* The calls one task makes, which the model caps.
MaxCalls == 2

\* The identifier string the caller of updatePatient sent, under either key.
CallerId(args) == IF "_id" \in DOMAIN args THEN args._id ELSE args.id

\* The fields other than the identifier that a call of updatePatient supplies.
Supplied(args) == DOMAIN args \ IdKeys

\* The arguments of the concurrent calls: a part of each operation's domain
\* small enough to enumerate every interleaving, with colliding phones,
\* emails and (patient, date) pairs in it.
ConcAddPatientArgs ==
    { a \in AddPatientArgs : a.nombre = "Ana" /\ a.telefono # "" }
ConcAddAppointmentArgs ==
    { a \in AddAppointmentArgs :
        /\ a.paciente \in { OidStrings[1], MalformedId }
        /\ a.fecha = "2024-05-01"
        /\ a.tipo = "checkup" }
ConcUpdatePatientArgs ==
    { a \in UpdatePatientArgs :
        /\ CallerId(a) = OidStrings[1]
        /\ "nombre" \in DOMAIN a => a.nombre = "Luis"
        /\ "telefono" \in DOMAIN a => a.telefono # ""
        /\ "correo" \in DOMAIN a => a.correo = "b@x.com" }

\* The documents inserted into coll so far, which the model caps at MaxOid
\* per collection when calls run concurrently.
InsertedIn(coll) == nextOid[coll] - 1

\* Mutant: the insert replaces the content of the collection.
InsertOneReplacing(coll, doc) == { doc }

\* collection.insertOne(doc): the collection afterwards.
InsertOne(coll, doc) == coll \cup { doc }

\* Task p begins a call of op with args; its first storage call is issued,
\* and pc is the step that follows it.
Begun(p, op, args, pc) ==
    [ pc |-> pc, op |-> op, args |-> args, error |-> NoError,
      n |-> procs[p].n + 1,
      upd |-> procs[p].upd + (IF op = "updatePatient" THEN 1 ELSE 0),
      existed |-> /\ op = "updatePatient"
                  /\ \E d \in patients : CallerId(args) = toString(d._id),
      raced |-> FALSE ]

\* The call of task p ends with error (NoError when it returns).
Ended(p, error) == [ procs[p] EXCEPT !.pc = "idle", !.error = error ]

\* procs after task p, whose record becomes r, has written to the patients
\* collection: the tasks between the findOne and the findOneAndUpdate of an
\* updatePatient call have been raced.
Written(p, r) ==
    [ q \in Procs |->
        IF q = p THEN r
        ELSE IF /\ procs[q].op = "updatePatient"
                /\ procs[q].pc \in { "validar", "findOneAndUpdate" }
        THEN [ procs[q] EXCEPT !.raced = TRUE ]
        ELSE procs[q] ]

\* addPatient up to the result of its findOne.
addPatientFindOne(p, args) ==
    LET paciente_existe ==
            FindOne({ d \in patients : PacienteExisteFilter(args, d) })
    IN  /\ procs[p].pc = "idle"
        /\ procs[p].n < MaxCalls
        /\ procs' = [ procs EXCEPT ![p] =
              IF paciente_existe # null
              THEN [ Begun(p, "addPatient", args, "idle")
                       EXCEPT !.error = "ya existe el paciente" ]
              ELSE Begun(p, "addPatient", args, "insertOne") ]
        /\ UNCHANGED << patients, citas, nextOid, reply, created, deleted,
                        calls >>

\* Mutant: the collection has unique indexes on telefono and correo, and
\* the insert of a duplicate fails.
addPatientInsertOneUnique(p) ==
    LET args == procs[p].args
        doc == [ _id |-> InsertedId("pacientes"), nombre |-> args.nombre,
                 telefono |-> args.telefono, correo |-> args.correo ]
    IN  /\ procs[p].pc = "insertOne"
        /\ procs[p].op = "addPatient"
        /\ InsertedIn("pacientes") < MaxOid
        /\ IF \E d \in patients : PacienteExisteFilter(args, d)
           THEN /\ procs' = [ procs EXCEPT ![p] = Ended(p, "E11000") ]
                /\ UNCHANGED << patients, nextOid >>
           ELSE /\ patients' = InsertOne(patients, doc)
                /\ nextOid' = [ nextOid EXCEPT !.pacientes = @ + 1 ]
                /\ procs' = Written(p, Ended(p, NoError))
        /\ UNCHANGED << citas, reply, created, deleted, calls >>

\* addPatient from the result of its findOne (no patient found) to its
\* return: the insertOne.
addPatientInsertOne(p) ==
    LET args == procs[p].args
        doc == [ _id |-> InsertedId("pacientes"), nombre |-> args.nombre,
                 telefono |-> args.telefono, correo |-> args.correo ]
    IN  /\ procs[p].pc = "insertOne"
        /\ procs[p].op = "addPatient"
        /\ InsertedIn("pacientes") < MaxOid
        /\ patients' = InsertOne(patients, doc)
        /\ nextOid' = [ nextOid EXCEPT !.pacientes = @ + 1 ]
        /\ procs' = Written(p, Ended(p, NoError))
        /\ UNCHANGED << citas, reply, created, deleted, calls >>

\* addAppointment up to the result of its findOne.
addAppointmentFindOne(p, args) ==
    /\ procs[p].pc = "idle"
    /\ procs[p].n < MaxCalls
    /\ procs' = [ procs EXCEPT ![p] =
          IF ~IsObjectIdString(args.paciente)
          THEN [ Begun(p, "addAppointment", args, "idle")
                   EXCEPT !.error = BSONError ]
          ELSE IF FindOne({ d \in citas : CitaExisteFilter(args, d) }) # null
          THEN [ Begun(p, "addAppointment", args, "idle")
                   EXCEPT !.error =
                     "Ya existe una cita para este paciente en esa fecha" ]
          ELSE Begun(p, "addAppointment", args, "insertOne") ]
    /\ UNCHANGED << patients, citas, nextOid, reply, created, deleted, calls >>

\* addAppointment from the result of its findOne (no appointment found) to
\* its return: the insertOne.
addAppointmentInsertOne(p) ==
    LET args == procs[p].args
        doc == [ _id |-> InsertedId("citas"),
                 paciente |-> ObjectId(args.paciente),
                 fecha |-> BsonDate(Date(args.fecha)), tipo |-> args.tipo ]
    IN  /\ procs[p].pc = "insertOne"
        /\ procs[p].op = "addAppointment"
        /\ InsertedIn("citas") < MaxOid
        /\ citas' = InsertOne(citas, doc)
        /\ nextOid' = [ nextOid EXCEPT !.citas = @ + 1 ]
        /\ procs' = [ procs EXCEPT ![p] = Ended(p, NoError) ]
        /\ UNCHANGED << patients, reply, created, deleted, calls >>

\* updatePatient up to the result of its findOne.
updatePatientFindOne(p, args) ==
    /\ procs[p].pc = "idle"
    /\ procs[p].n < MaxCalls
    /\ procs' = [ procs EXCEPT ![p] =
          IF "_id" \in DOMAIN args /\ ~IsObjectIdString(args._id)
          THEN [ Begun(p, "updatePatient", args, "idle")
                   EXCEPT !.error = BSONError ]
          ELSE IF FindById(patients, ArgsOid(args)) = null
          THEN [ Begun(p, "updatePatient", args, "idle")
                   EXCEPT !.error = "Paciente no encontrado" ]
          ELSE IF Truthy(args, "telefono")
          THEN Begun(p, "updatePatient", args, "validar")
          ELSE Begun(p, "updatePatient", args, "findOneAndUpdate") ]
    /\ UNCHANGED << patients, citas, nextOid, reply, created, deleted, calls >>

\* updatePatient from the result of its findOne to the result of validar.
updatePatientValidar(p) ==
    /\ procs[p].pc = "validar"
    /\ procs' = [ procs EXCEPT ![p] =
          IF ~validar(procs[p].args.telefono)
          THEN Ended(p, "telefono invalido")
          ELSE [ procs[p] EXCEPT !.pc = "findOneAndUpdate" ] ]
    /\ UNCHANGED << patients, citas, nextOid, reply, created, deleted, calls >>

\* updatePatient from there to its end: the findOneAndUpdate.
updatePatientFindOneAndUpdate(p) ==
    LET args == procs[p].args
        updated == FindOneAndUpdate(patients, ArgsOid(args), UpdateFields(args))
    IN  /\ procs[p].pc = "findOneAndUpdate"
        /\ patients' = updated.coll
        /\ procs' = Written(p, Ended(p, IF updated.result = null
                                        THEN "Contact not found"
                                        ELSE NoError))
        /\ UNCHANGED << citas, nextOid, reply, created, deleted, calls >>

NextConc ==
    \E p \in Procs :
        \/ \E args \in ConcAddPatientArgs : addPatientFindOne(p, args)
        \/ addPatientInsertOne(p)
        \/ \E args \in ConcAddAppointmentArgs : addAppointmentFindOne(p, args)
        \/ addAppointmentInsertOne(p)
        \/ \E args \in ConcUpdatePatientArgs : updatePatientFindOne(p, args)
        \/ updatePatientValidar(p)
        \/ updatePatientFindOneAndUpdate(p)

SpecConc == Init /\ [][NextConc]_vars

(* ======================================================================= *)
(* Claims                                                                  *)
(* ======================================================================= *)

\* C1: after any sequence of addPatient and updatePatient calls, no two
\* stored patients share a phone and no two share an email.
C1_UniquePhoneAndEmail ==
    \A p, q \in patients :
        p # q => p.telefono # q.telefono /\ p.correo # q.correo

\* C2: after any sequence of addAppointment and deleteAppointment calls, no
\* two stored appointments have the same (patient reference, date) pair.
C2_UniquePatientDate ==
    \A c, d \in citas :
        c # d => ~(c.paciente = d.paciente /\ c.fecha = d.fecha)

\* Two appointments of one patient are stored, the second just inserted.
C2_Witness ==
    /\ reply.op = "addAppointment" /\ reply.error = NoError
    /\ \E c, d \in citas : c # d /\ c.paciente = d.paciente

\* C3: addPatient with the phone of a stored patient, or with the email of
\* one, fails with Conflict and leaves the patients collection as it was.
C3_AddPatientConflict ==
    [][ reply'.op = "addPatient" => \A args \in AddPatientArgs :
          ( /\ \E d \in patients :
                  d.telefono = args.telefono \/ d.correo = args.correo
            /\ addPatient(args) )
          => /\ reply'.error \in Conflict
             /\ patients' = patients ]_vars

\* addPatient has just failed with Conflict against a stored patient.
C3_Witness ==
    /\ reply.op = "addPatient" /\ reply.error \in Conflict
    /\ patients # {}

\* C4: addPatient with a phone and an email no stored patient has adds
\* exactly one patient and returns it: name, phone and email are the
\* input's, and its id is the id of no patient stored before the call.
C4_AddPatientFresh ==
    [][ reply'.op = "addPatient" => \A args \in AddPatientArgs :
          ( /\ ~ \E d \in patients :
                  d.telefono = args.telefono \/ d.correo = args.correo
            /\ addPatient(args) )
          => /\ reply'.error = NoError
             /\ reply'.value.nombre = args.nombre
             /\ reply'.value.telefono = args.telefono
             /\ reply'.value.correo = args.correo
             /\ \A d \in patients : d._id # reply'.value._id
             /\ patients' = patients \cup { reply'.value }
             /\ Cardinality(patients') = Cardinality(patients) + 1 ]_vars

\* addPatient has just returned a second patient.
C4_Witness ==
    /\ reply.op = "addPatient" /\ reply.error = NoError
    /\ Cardinality(patients) = 2
    /\ reply.value \in patients

\* C5: with a well-formed patient reference and a parseable date,
\* addAppointment fails with Conflict and inserts nothing when an appointment
\* with that reference and that date is stored, whatever the type; when none
\* is, it succeeds and inserts one appointment with the reference, the date
\* and the type of the call.
C5_AddAppointmentSameDate ==
    [][ reply'.op = "addAppointment" => \A args \in AddAppointmentArgs :
          ( /\ IsObjectIdString(args.paciente)
            /\ Date(args.fecha) # NaN
            /\ addAppointment(args) )
          => IF \E d \in citas : /\ d.paciente = ObjectId(args.paciente)
                                 /\ d.fecha = Date(args.fecha)
             THEN /\ reply'.error \in Conflict
                  /\ citas' = citas
             ELSE /\ reply'.error = NoError
                  /\ Cardinality(citas') = Cardinality(citas) + 1
                  /\ \E d \in citas' :
                        /\ citas' = citas \cup { d }
                        /\ d.paciente = ObjectId(args.paciente)
                        /\ d.fecha = Date(args.fecha)
                        /\ d.tipo = args.tipo ]_vars

\* A patient has appointments on two dates, and a further addAppointment for
\* that patient has just failed with Conflict.
C5_Witness ==
    /\ reply.op = "addAppointment" /\ reply.error \in Conflict
    /\ \E c, d \in citas : c # d /\ c.paciente = d.paciente

\* C6: addAppointment with a date string that parses to no date fails with
\* InvalidArgument and inserts no appointment.
C6_UnparseableDateRejected ==
    [][ reply'.op = "addAppointment" => \A args \in AddAppointmentArgs :
          ( /\ IsObjectIdString(args.paciente)
            /\ Date(args.fecha) = NaN
            /\ addAppointment(args) )
          => /\ reply'.error \in InvalidArgument
             /\ citas' = citas ]_vars

\* C7: updatePatient on a stored patient with a phone the validator rejects
\* fails with InvalidArgument and changes no stored document, whether or not
\* the phone differs from the stored one.
C7_InvalidPhoneRejected ==
    [][ reply'.op = "updatePatient" => \A args \in UpdatePatientArgs :
          ( /\ \E p \in patients : CallerId(args) = toString(p._id)
            /\ "telefono" \in DOMAIN args
            /\ ~validar(args.telefono)
            /\ updatePatient(args) )
          => /\ reply'.error \in InvalidArgument
             /\ patients' = patients
             /\ citas' = citas ]_vars

\* What remains of C7 in the code: when the identifier reaches the resolver
\* as args._id and the rejected phone is not the empty string, the call
\* fails with InvalidArgument and changes no stored document.
C7_TypedArgsNonEmptyPhone ==
    [][ reply'.op = "updatePatient" => \A args \in UpdatePatientArgs :
          ( /\ "_id" \in DOMAIN args
            /\ \E p \in patients : args._id = toString(p._id)
            /\ Truthy(args, "telefono")
            /\ ~validar(args.telefono)
            /\ updatePatient(args) )
          => /\ reply'.error \in InvalidArgument
             /\ patients' = patients
             /\ citas' = citas ]_vars

\* The patient p after a partial update by args: the supplied fields take the
\* supplied values, the others and the id keep theirs.
Merged(p, args) ==
    [ _id |-> p._id,
      nombre |-> IF "nombre" \in DOMAIN args THEN args.nombre ELSE p.nombre,
      telefono |->
          IF "telefono" \in DOMAIN args THEN args.telefono ELSE p.telefono,
      correo |-> IF "correo" \in DOMAIN args THEN args.correo ELSE p.correo ]

\* C8: updatePatient on a stored patient, with any subset of the fields
\* supplied and a supplied phone accepted by the validator, sets exactly the
\* supplied fields of that patient, keeps the others and the id, stores no id
\* field, and returns the patient as updated.
C8_PartialUpdate ==
    [][ reply'.op = "updatePatient" =>
        \A args \in UpdatePatientArgs : \A p \in patients :
          ( /\ CallerId(args) = toString(p._id)
            /\ ("telefono" \in DOMAIN args => validar(args.telefono))
            /\ updatePatient(args) )
          => /\ reply'.error = NoError
             /\ reply'.value = Merged(p, args)
             /\ patients' = (patients \ { p }) \cup { Merged(p, args) } ]_vars

\* What remains of C8 in the code: the same, when the identifier reaches the
\* resolver as args._id.
C8_TypedArgs ==
    [][ reply'.op = "updatePatient" =>
        \A args \in UpdatePatientArgs : \A p \in patients :
          ( /\ "_id" \in DOMAIN args
            /\ args._id = toString(p._id)
            /\ ("telefono" \in DOMAIN args => validar(args.telefono))
            /\ updatePatient(args) )
          => /\ reply'.error = NoError
             /\ reply'.value = Merged(p, args)
             /\ patients' = (patients \ { p }) \cup { Merged(p, args) } ]_vars

\* C9: deleteAppointment with a well-formed id returns true exactly when an
\* appointment with that id was stored, false (and no error) otherwise; it
\* removes that appointment and no other, so that a second call with the id
\* finds nothing to remove.
C9_DeleteAppointment ==
    [][ reply'.op = "deleteAppointment" => \A args \in DeleteAppointmentArgs :
          ( /\ IsObjectIdString(args.id)
            /\ deleteAppointment(args) )
          => /\ reply'.error = NoError
             /\ reply'.value = (\E d \in citas : d._id = ObjectId(args.id))
             /\ citas' = { d \in citas : d._id # ObjectId(args.id) }
             /\ ~ \E d \in citas' : d._id = ObjectId(args.id) ]_vars

\* An appointment was deleted, and a later deleteAppointment has just
\* returned false.
C9_Witness ==
    /\ reply.op = "deleteAppointment" /\ reply.error = NoError
    /\ reply.value = FALSE
    /\ deleted

\* C10: while no appointment has been deleted, getAppointments returns one
\* entry for every appointment addAppointment inserted and no other, each
\* with the type and the date it was created with, and the paciente field of
\* each entry is a stored patient.
C10_GetAppointments ==
    (reply.op = "getAppointments" /\ ~deleted) =>
        /\ Cardinality(reply.value) = Cardinality(created)
        /\ \A c \in created : \E e \in reply.value :
              /\ e.id = toString(c._id)
              /\ e.tipo = c.tipo
              /\ e.fecha = DateToString(c.fecha)
              /\ e.paciente \in patients

\* C11: in every reachable state the phone of every stored patient satisfies
\* the phone-format predicate.
C11_StoredPhonesValid ==
    \A p \in patients : validar(p.telefono)

\* The storage calls that write.
MutatingCalls == { "insertOne", "deleteOne", "findOneAndUpdate" }

\* C12: an operation that ends in a NotFound, Conflict or InvalidArgument
\* failure has issued no mutating storage call, and both collections are
\* after it what they were before it.
C12_FailureMutatesNothing ==
    [][ reply'.error \in NotFound \cup Conflict \cup InvalidArgument
          => /\ patients' = patients
             /\ citas' = citas
             /\ \A i \in DOMAIN calls' : calls'[i] \notin MutatingCalls ]_vars

\* updatePatient has just failed with InvalidArgument on a store that holds
\* patients and appointments.
C12_Witness ==
    /\ reply.op = "updatePatient" /\ reply.error \in InvalidArgument
    /\ patients # {} /\ citas # {}

\* C13: getPacient with the id of a stored patient returns that patient; with
\* an id that matches no stored patient it fails with NotFound; either way it
\* changes neither collection. A string that is no identifier fails before
\* any storage call.
C13_GetPacient ==
    [][ reply'.op = "getPacient" => \A args \in QueryArgsPaciente :
          getPacient(args)
          => /\ patients' = patients
             /\ citas' = citas
             /\ \A p \in patients :
                   args.id = toString(p._id)
                   => reply'.error = NoError /\ reply'.value = p
             /\ ( /\ IsObjectIdString(args.id)
                  /\ ~ \E p \in patients : args.id = toString(p._id) )
                => reply'.error \in NotFound
             /\ ~IsObjectIdString(args.id)
                => reply'.error = BSONError /\ calls' = << >> ]_vars

\* getPacient has just returned one of two stored patients.
C13_Witness ==
    /\ reply.op = "getPacient" /\ reply.error = NoError
    /\ reply.value \in patients
    /\ Cardinality(patients) = 2

\* getPacient has just failed with NotFound while patients are stored.
C13_WitnessNotFound ==
    /\ reply.op = "getPacient" /\ reply.error \in NotFound
    /\ patients # {}

\* The operations on appointments, and those on patients.
AppointmentOps == { "addAppointment", "deleteAppointment", "getAppointments" }
PatientOps == { "addPatient", "updatePatient", "getPacient" }

\* C14: addAppointment, deleteAppointment and getAppointments (with the
\* patient expansion of its entries) leave the patients collection as it
\* was; addPatient, updatePatient and getPacient leave the appointments
\* collection as it was.
C14_Frame ==
    [][ /\ reply'.op \in AppointmentOps => patients' = patients
        /\ reply'.op \in PatientOps => citas' = citas ]_vars

\* deleteAppointment has just removed the appointment of a stored patient,
\* and the patient is still stored.
C14_Witness ==
    /\ reply.op = "deleteAppointment" /\ reply.error = NoError
    /\ reply.value = TRUE
    /\ citas = {}
    /\ patients # {}

\* The stored appointment d refers to no stored patient.
Dangling(d, coll) == ~ \E p \in coll : p._id = d.paciente

\* C17: addAppointment with a well-formed patient reference that matches no
\* stored patient, and a parseable date for which that reference has no
\* appointment, succeeds and inserts an appointment whose reference matches
\* no stored patient; getAppointments returns a null paciente for every
\* stored appointment whose reference matches no stored patient.
C17_DanglingReference ==
    [][ /\ reply'.op = "addAppointment" => \A args \in AddAppointmentArgs :
            ( /\ IsObjectIdString(args.paciente)
              /\ ~ \E p \in patients : p._id = ObjectId(args.paciente)
              /\ Date(args.fecha) # NaN
              /\ ~ \E d \in citas : /\ d.paciente = ObjectId(args.paciente)
                                    /\ d.fecha = Date(args.fecha)
              /\ addAppointment(args) )
            => /\ reply'.error = NoError
               /\ \E d \in citas' \ citas :
                     /\ d.paciente = ObjectId(args.paciente)
                     /\ Dangling(d, patients')
        /\ reply'.op = "getAppointments" =>
              \A d \in citas :
                 Dangling(d, patients)
                 => \E e \in reply'.value :
                       e.id = toString(d._id) /\ e.paciente = null ]_vars

\* getAppointments has just returned an entry whose paciente is null, for a
\* stored appointment that refers to no stored patient, while a patient is
\* stored.
C17_Witness ==
    /\ reply.op = "getAppointments"
    /\ \E e \in reply.value : e.paciente = null
    /\ \E d \in citas : Dangling(d, patients)
    /\ patients # {}

\* The storage calls that only read.
ReadCalls == { "findOne", "find" }

\* The call sequences of at most one check followed by at most one mutation.
CheckThenMutation ==
    { << >> }
    \cup { << c >> : c \in ReadCalls }
    \cup { << m >> : m \in MutatingCalls }
    \cup { << c, m >> : c \in ReadCalls, m \in MutatingCalls }

\* C16 as stated: every operation, getAppointments with the patient
\* expansion of its entries included, issues at most two storage calls, at
\* most one check followed by at most one mutation.
C16_AtMostTwoCalls == calls \in CheckThenMutation

\* C16: every operation other than getAppointments issues at most two
\* storage calls, at most one check followed by at most one mutation;
\* getAppointments issues one find and then one findOne for each appointment
\* it returns, none of them a mutation.
C16_CallsPerOperation ==
    /\ reply.op # "getAppointments" => calls \in CheckThenMutation
    /\ reply.op = "getAppointments" =>
          /\ Len(calls) = 1 + Cardinality(reply.value)
          /\ calls[1] = "find"
          /\ \A i \in 2..Len(calls) : calls[i] = "findOne"

\* getAppointments has just returned two appointments, with three storage
\* calls.
C16_Witness ==
    /\ reply.op = "getAppointments"
    /\ Cardinality(reply.value) = 2
    /\ Len(calls) = 3

\* C15: when calls interleave at their storage calls, an addPatient call
\* that passed its existence check inserts its patient whatever was inserted
\* since, and an addAppointment call likewise: nothing is checked again at
\* the insert. Two patients with one phone, and two appointments with one
\* (patient reference, date) pair, are reached that way (C15_Witness).
C15_InsertAfterCheck ==
    [][ \A p \in Procs :
          (procs[p].pc = "insertOne" /\ procs'[p].pc = "idle")
          => /\ procs'[p].error = NoError
             /\ procs[p].op = "addPatient" =>
                   \E d \in patients' \ patients :
                      /\ d.telefono = procs[p].args.telefono
                      /\ d.correo = procs[p].args.correo
             /\ procs[p].op = "addAppointment" =>
                   \E d \in citas' \ citas :
                      /\ d.paciente = ObjectId(procs[p].args.paciente)
                      /\ d.fecha = BsonDate(Date(procs[p].args.fecha)) ]_vars

\* Two addPatient calls with one phone and one email have both returned, and
\* so have two addAppointment calls with one patient reference and one date:
\* two stored patients share the phone and the email, and two stored
\* appointments share the pair.
C15_Witness ==
    /\ \A p \in Procs : procs[p].pc = "idle" /\ procs[p].error = NoError
    /\ \E c, d \in patients :
          c # d /\ c.telefono = d.telefono /\ c.correo = d.correo
    /\ \E c, d \in citas :
          c # d /\ c.paciente = d.paciente /\ c.fecha = d.fecha

\* C18: no step removes a patient or changes a patient's id, so the stored
\* patient ids only grow; and an updatePatient call whose findOne found the
\* patient finds it again at its findOneAndUpdate, whatever the other calls
\* did in between: it ends without error, on the patient with that id, and
\* no call ends with the "Contact not found" of updatePatient.
C18_UpdateFindsPatient ==
    [][ /\ \A d \in patients : \E e \in patients' : e._id = d._id
        /\ \A p \in Procs :
              /\ procs'[p].error # "Contact not found"
              /\ (procs[p].pc = "findOneAndUpdate" /\ procs'[p].pc = "idle")
                 => /\ procs'[p].error = NoError
                    /\ \E d \in patients : \E e \in patients' :
                          /\ d._id = ObjectId(procs[p].args._id)
                          /\ e = Set(d, UpdateFields(procs[p].args))
                          /\ patients' = (patients \ { d }) \cup { e } ]_vars

\* An updatePatient call has returned its patient although another task
\* wrote to the patients collection between its findOne and its
\* findOneAndUpdate.
C18_Witness ==
    \E p \in Procs :
        /\ procs[p].op = "updatePatient" /\ procs[p].pc = "idle"
        /\ procs[p].error = NoError
        /\ procs[p].raced

\* Tasks p and q have each made one updatePatient call, both calls have
\* ended, both named the same patient, stored when each call began, and they
\* supplied disjoint, non-empty sets of fields, a supplied phone being one
\* the validator accepts.
DisjointUpdates(p, q) ==
    /\ p # q
    /\ \A r \in { p, q } :
          /\ procs[r].op = "updatePatient" /\ procs[r].pc = "idle"
          /\ procs[r].upd = 1
          /\ procs[r].existed
          /\ Supplied(procs[r].args) # {}
          /\ "telefono" \in DOMAIN procs[r].args
                => validar(procs[r].args.telefono)
    /\ CallerId(procs[p].args) = CallerId(procs[q].args)
    /\ Supplied(procs[p].args) \cap Supplied(procs[q].args) = {}

\* The stored patient the call with args named has every field the call
\* supplied, at the value supplied.
TookEffect(args) ==
    \E d \in patients :
        /\ toString(d._id) = CallerId(args)
        /\ \A f \in Supplied(args) : d[f] = args[f]

\* C19: after two updatePatient calls on one stored patient that supplied
\* disjoint sets of fields, however their storage calls interleaved, the
\* stored patient has every field either call supplied at the value
\* supplied.
C19_NoLostUpdate ==
    \A p, q \in Procs :
        DisjointUpdates(p, q)
        => TookEffect(procs[p].args) /\ TookEffect(procs[q].args)

\* What remains of C19 in the code: the same, when the identifier reaches
\* both calls as args._id.
C19_TypedArgs ==
    \A p, q \in Procs :
        ( /\ DisjointUpdates(p, q)
          /\ "_id" \in DOMAIN procs[p].args
          /\ "_id" \in DOMAIN procs[q].args )
        => TookEffect(procs[p].args) /\ TookEffect(procs[q].args)

\* Two such calls, with the identifier as args._id, have interleaved: each
\* returned after the other wrote, and both sets of fields are stored.
C19_TypedArgsWitness ==
    \E p, q \in Procs :
        /\ DisjointUpdates(p, q)
        /\ "_id" \in DOMAIN procs[p].args
        /\ "_id" \in DOMAIN procs[q].args
        /\ procs[p].raced

====
